---- MODULE Spec2Model ----
(***************************************************************************)
(* Notion -> ClickUp incremental sync (src/app.py, src/sync.py).           *)
(*                                                                         *)
(* The model covers the reconciliation cycle sync_notion_to_clickup, the   *)
(* persisted ledger known_tasks.json, the two callers of the cycle in      *)
(* app.py (the background poll loop and the /trigger route, which run on   *)
(* different threads without any lock) and the /reset route.  The remote   *)
(* systems are modelled by what the code reads from and writes to them:    *)
(* the Notion database is a set of record ids listed newest first, one     *)
(* result page per query; the ClickUp list is a sequence of tasks, each    *)
(* remembered by the source id whose marker its description starts with.   *)
(*                                                                         *)
(* Source ids are 1, 2, ... in creation order; 0 stands for "none".        *)
(* The durable file is assumed to be written successfully when the code    *)
(* writes it; every network call may fail.                                 *)
(***************************************************************************)
EXTENDS Integers, Sequences, FiniteSets, TLC

\* Number of records ever created in the source database.
MaxId == 3
\* Records per result page of the source query (scaled down from the API's).
PageSize == 2
\* Disturbances over the run: requests to /trigger and /reset, deleted
\* records, failed network requests, records the transform raises on.
MaxEvents == 2

Ids == 1..MaxId
None == 0
Threads == {"loop", "trigger"}

VARIABLES
    source,            \* ids of the records currently in the Notion database
    malformed,         \* those of them whose page format_notion_task raises for
    nextId,            \* number of records created so far
    file,              \* known_tasks.json
    target,            \* ClickUp list: target[k] = source id task k was created for
    pc,                \* per thread: position inside sync_notion_to_clickup
    known_task_ids,    \* per thread: local set known_task_ids
    is_initialized,    \* per thread: known_data["initialized"] as loaded
    notion_tasks,      \* per thread: the listing, newest first
    new_task_ids,      \* per thread: ids of the listing not in the ledger
    idx,               \* per thread: position of the loop over notion_tasks
    clickup_task_id,   \* per thread: result of the lookup for the current record
    attempts,          \* per thread: what the current cycle did, record by record
    outcome,           \* per thread: how the thread's last cycle ended
    everKnown,         \* history: ids the ledger has held since the last reset
    preexisting,       \* history: ids in Notion at a first run since the last reset
    knownBefore,       \* per thread: everKnown when the cycle read the ledger
    existedBefore,     \* per thread: preexisting when the cycle read the ledger
    events,            \* disturbances so far
    lastReset,         \* history: the source at the last reset, and the first cycle after it
    sync_status,       \* the global of that name: its counters total_synced and errors
    clickup_users_cache, \* the global of that name: the roster table, or None
    call,              \* the function called on its own, with its arguments
    returned           \* what that call returned

vars == <<source, malformed, nextId, file, target, pc, known_task_ids, is_initialized,
          notion_tasks, new_task_ids, idx, clickup_task_id, attempts, outcome,
          everKnown, preexisting, knownBefore, existedBefore, events,
          lastReset, clickup_users_cache, sync_status, call, returned>>

\* The call of one function on its own, outside the service.
single == <<call, returned>>

locals == <<known_task_ids, is_initialized, notion_tasks, new_task_ids, idx,
            clickup_task_id, attempts, knownBefore, existedBefore>>

history == <<everKnown, preexisting>>

(***************************************************************************)
(* Helpers                                                                 *)
(***************************************************************************)
Range(s) == {s[k] : k \in DOMAIN s}

\* The step counts as a disturbance when `is` holds, and there is room for it.
Disturbed(is) ==
    /\ is => events < MaxEvents
    /\ events' = IF is THEN events + 1 ELSE events

Max(S) == CHOOSE x \in S : \A y \in S : y <= x

\* The ids of S, newest (largest) first.
RECURSIVE SortDesc(_)
SortDesc(S) == IF S = {} THEN <<>> ELSE <<Max(S)>> \o SortDesc(S \ {Max(S)})

Prefix(s, n) == SubSeq(s, 1, IF Len(s) < n THEN Len(s) ELSE n)

(***************************************************************************)
(* Ledger file                                                             *)
(***************************************************************************)
NoFile == [exists |-> FALSE, task_ids |-> {}, initialized |-> FALSE]

\* load_known_tasks: the file's content, or the default when there is no file.
load_known_tasks ==
    IF file.exists
    THEN [task_ids |-> file.task_ids, initialized |-> file.initialized]
    ELSE [task_ids |-> {}, initialized |-> FALSE]

\* save_known_tasks: the file now exists and holds known_data.
save_known_tasks(known_data) ==
    [exists |-> TRUE, task_ids |-> known_data.task_ids,
     initialized |-> known_data.initialized]

(***************************************************************************)
(* Notion                                                                  *)
(***************************************************************************)
\* get_notion_tasks: one query, sorted by created_time descending.  The code
\* reads "results" of the first response only and never follows has_more /
\* next_cursor, so it gets the first page.  A failed request gives [].
get_notion_tasks(ok) ==
    IF ok THEN Prefix(SortDesc(source), PageSize) ELSE <<>>

\* The free-text description of record s as format_notion_task copies it.
\* It is user text: here the newest record's notes quote the marker of the
\* record created just before it, every other description quotes nothing.
Quotes(s) == IF s = MaxId THEN s - 1 ELSE None

(***************************************************************************)
(* ClickUp                                                                 *)
(***************************************************************************)
\* create_clickup_task's payload: description = "[Notion ID: s]\n\n" + text.
\* The markers a task created for s contains as substrings.
MarkersIn(s) == IF s = None THEN {} ELSE {s, Quotes(s)} \ {None}

\* create_clickup_task's payload: the description starts with the marker of
\* task_data["notion_id"].
create_description(notion_id) == notion_id

\* An update that sends a description of its own.
update_description_Rewritten(old, notion_id) == notion_id

\* update_clickup_task's payload has the keys name, status, priority and
\* optionally due_date and assignees, no description: the task keeps its own.
update_description(old, notion_id) == old

\* get_clickup_users: the table when there is one ("if clickup_users_cache"),
\* else what the two requests give: a table, which is stored in the global,
\* or {} when a request fails or the team has no member, and then the next
\* call asks again.  The value is the global after the call.
get_clickup_users(fetched) ==
    IF clickup_users_cache # None THEN clickup_users_cache ELSE fetched

\* get_clickup_task_by_notion_id: id of the first task of the listing whose
\* description contains "[Notion ID: s]"; None when there is none or the
\* listing request failed.
get_clickup_task_by_notion_id(s, ok) ==
    LET hits == {k \in DOMAIN target : s \in MarkersIn(target[k])}
    IN  IF ok /\ hits # {} THEN CHOOSE k \in hits : \A j \in hits : k <= j
        ELSE None

(***************************************************************************)
(* Initial state                                                           *)
(***************************************************************************)
InitService ==
    /\ source = {}
    /\ malformed = {}
    /\ nextId = 0
    /\ file = NoFile
    /\ target = <<None>>            \* one hand-made task without marker
    /\ pc = [t \in Threads |-> "idle"]
    /\ known_task_ids = [t \in Threads |-> {}]
    /\ is_initialized = [t \in Threads |-> FALSE]
    /\ notion_tasks = [t \in Threads |-> <<>>]
    /\ new_task_ids = [t \in Threads |-> <<>>]
    /\ idx = [t \in Threads |-> 0]
    /\ clickup_task_id = [t \in Threads |-> None]
    /\ attempts = [t \in Threads |-> <<>>]
    /\ outcome = [t \in Threads |-> "none"]
    /\ everKnown = {}
    /\ preexisting = {}
    /\ knownBefore = [t \in Threads |-> {}]
    /\ existedBefore = [t \in Threads |-> {}]
    /\ events = 0
    /\ lastReset = [existed |-> {}, first |-> "none"]
    /\ sync_status = [total_synced |-> 0, errors |-> 0]

\* No function is called on its own.
NoCall == call = [fn |-> "none"] /\ returned = [fn |-> "none"]

\* The contents the team's member listing can have.
RosterVersions == {1, 2}

\* background_sync_loop's call of get_clickup_users before its first cycle
\* (line 653) built the table.
UsersLoaded == clickup_users_cache = 1

\* The state after construction, no function being called on its own.
Init == InitService /\ NoCall /\ UsersLoaded

(***************************************************************************)
(* sync_notion_to_clickup, one action per step between two accesses to     *)
(* shared state (the file, Notion, ClickUp).                               *)
(***************************************************************************)
\* A cycle that does not stop on an empty listing.
NothingFetched_Ignored(tasks) == FALSE

\* "if not notion_tasks": an empty listing ends the cycle at once.
NothingFetched(tasks) == tasks = <<>>

\* current_task_ids = [task.get("id") for task in notion_tasks]
current_task_ids(t) == notion_tasks[t]

\* A first run that saves the ids it loaded instead of the ids it listed.
FirstRunData_Loaded(current) == [task_ids |-> {}, initialized |-> TRUE]

\* The ledger the first run saves: the listing's ids, initialized.
FirstRunData(current) == [task_ids |-> Range(current), initialized |-> TRUE]

\* new_task_ids = [tid for tid in current_task_ids if tid not in known_task_ids]
NewTaskIds(current, known) ==
    LET IsNew(tid) == tid \notin known IN SelectSeq(current, IsNew)

\* A loop that takes the record it has just processed once more.
NextNew_Again(tasks, new, from) ==
    LET S == {k \in DOMAIN tasks : k >= from - 1 /\ k >= 1 /\ tasks[k] \in Range(new)}
    IN  IF S = {} THEN 0 ELSE CHOOSE k \in S : \A j \in S : k <= j

\* A loop that walks the listing from its end.
NextNew_Last(tasks, new, from) ==
    LET S == {k \in DOMAIN tasks : k >= from /\ tasks[k] \in Range(new)}
    IN  IF S = {} THEN 0 ELSE CHOOSE k \in S : \A j \in S : k >= j

\* The loop "for notion_page in notion_tasks" with its "continue": the first
\* position from `from` on whose id is in new_task_ids; 0 past the end.
NextNew(tasks, new, from) ==
    LET S == {k \in DOMAIN tasks : k >= from /\ tasks[k] \in Range(new)}
    IN  IF S = {} THEN 0 ELSE CHOOSE k \in S : \A j \in S : k <= j

\* "if clickup_task_id": update when the lookup found a task, create otherwise.
ShouldUpdate(task_id) == task_id # None

\* The ledger the cycle saves after its loop: known_data as loaded, with
\* task_ids replaced by list(known_task_ids).
PersistData(known, initialized) == [task_ids |-> known, initialized |-> initialized]

\* The function's frame is left: its locals are gone.
Unwind(t, how) ==
    /\ outcome' = [outcome EXCEPT ![t] = how]
    /\ known_task_ids' = [known_task_ids EXCEPT ![t] = {}]
    /\ is_initialized' = [is_initialized EXCEPT ![t] = FALSE]
    /\ notion_tasks' = [notion_tasks EXCEPT ![t] = <<>>]
    /\ new_task_ids' = [new_task_ids EXCEPT ![t] = <<>>]
    /\ idx' = [idx EXCEPT ![t] = 0]
    /\ clickup_task_id' = [clickup_task_id EXCEPT ![t] = None]
    /\ attempts' = [attempts EXCEPT ![t] = <<>>]
    /\ knownBefore' = [knownBefore EXCEPT ![t] = {}]
    /\ existedBefore' = [existedBefore EXCEPT ![t] = {}]
    /\ lastReset' = IF lastReset.first = t
                    THEN [existed |-> {}, first |-> "none"] ELSE lastReset
    /\ UNCHANGED <<single, clickup_users_cache>>

\* The function returns: its locals are gone, the thread is idle again.
Return(t, how) ==
    /\ pc' = [pc EXCEPT ![t] = "idle"]
    /\ Unwind(t, how)

\* Lines 531-533: read the ledger file.
sync_load(t) ==
    /\ pc[t] = "idle"
    /\ known_task_ids' = [known_task_ids EXCEPT ![t] = load_known_tasks.task_ids]
    /\ is_initialized' = [is_initialized EXCEPT ![t] = load_known_tasks.initialized]
    /\ outcome' = [outcome EXCEPT ![t] = "running"]
    /\ pc' = [pc EXCEPT ![t] = "listing"]
    /\ knownBefore' = [knownBefore EXCEPT ![t] = everKnown]
    /\ existedBefore' = [existedBefore EXCEPT ![t] = preexisting]
    /\ lastReset' = IF lastReset.first = "pending"
                    THEN [lastReset EXCEPT !.first = t] ELSE lastReset
    /\ UNCHANGED <<source, malformed, nextId, file, target, notion_tasks, new_task_ids, idx,
                   clickup_task_id, attempts, history, single,
                   clickup_users_cache, sync_status>>

\* Line 535: query Notion.
sync_fetch(t) ==
    /\ pc[t] = "listing"
    /\ \E ok \in BOOLEAN :
          /\ Disturbed(~ok)
          /\ notion_tasks' = [notion_tasks EXCEPT ![t] = get_notion_tasks(ok)]
    /\ pc' = [pc EXCEPT ![t] = "fetched"]
    /\ UNCHANGED <<source, malformed, nextId, file, target, known_task_ids, is_initialized,
                   new_task_ids, idx, clickup_task_id, attempts, outcome, history,
                   knownBefore, existedBefore, lastReset, single,
                   clickup_users_cache, sync_status>>

\* Lines 536-572: return early on an empty listing, take the first-run
\* snapshot, or compute the new ids and enter the loop.
sync_diff(t) ==
    /\ pc[t] = "fetched"
    /\ LET tasks == current_task_ids(t)
           new   == NewTaskIds(tasks, known_task_ids[t])
       IN  IF NothingFetched(notion_tasks[t])
           THEN /\ Return(t, "empty")
                /\ UNCHANGED <<file, history>>
           ELSE IF ~is_initialized[t]
           THEN /\ file' = save_known_tasks(FirstRunData(tasks))
                /\ everKnown' = everKnown \cup file'.task_ids
                /\ preexisting' = preexisting \cup
                       {s \in source : \E k \in DOMAIN tasks : s <= tasks[k]}
                /\ Return(t, "first_run")
           ELSE IF new = <<>>
           THEN /\ Return(t, "no_new")
                /\ UNCHANGED <<file, history>>
           ELSE /\ new_task_ids' = [new_task_ids EXCEPT ![t] = new]
                /\ idx' = [idx EXCEPT ![t] = NextNew(tasks, new, 1)]
                /\ pc' = [pc EXCEPT ![t] = "dispatching"]
                /\ UNCHANGED <<file, outcome, known_task_ids, is_initialized,
                               notion_tasks, clickup_task_id, attempts, history,
                               knownBefore, existedBefore, lastReset, single,
                               clickup_users_cache>>
    /\ UNCHANGED <<source, malformed, nextId, target, events, sync_status>>

\* A loop that is left after its first record.
Advance_Break(t, k) ==
    /\ idx' = [idx EXCEPT ![t] = 0]
    /\ pc' = [pc EXCEPT ![t] = "persisting"]

\* The loop moves on from position k: next new record, or out of the loop.
Advance(t, k) ==
    LET n == NextNew(notion_tasks[t], new_task_ids[t], k + 1)
    IN  /\ idx' = [idx EXCEPT ![t] = n]
        /\ pc' = [pc EXCEPT ![t] = IF n = 0 THEN "persisting" ELSE "dispatching"]

\* Lines 584-587 and 617-625: format the record and look its task up.  An
\* exception (format_notion_task indexing a field that is not shaped as
\* expected) goes to the except branch: errors += 1, the id is not added
\* to known_task_ids, the loop goes on.
sync_lookup(t) ==
    /\ pc[t] = "dispatching"
    /\ LET s == notion_tasks[t][idx[t]]
       IN  \/ /\ s \in malformed
              /\ attempts' = [attempts EXCEPT ![t] =
                      Append(@, [sid |-> s, op |-> "raise", tid |-> None, ok |-> FALSE])]
              /\ Advance(t, idx[t])
              /\ UNCHANGED <<clickup_task_id, events>>
           \/ /\ s \notin malformed
              /\ \E ok \in BOOLEAN :
                    /\ Disturbed(~ok)
                    /\ clickup_task_id' = [clickup_task_id EXCEPT ![t] =
                                             get_clickup_task_by_notion_id(s, ok)]
              /\ pc' = [pc EXCEPT ![t] = "writing"]
              /\ UNCHANGED <<attempts, idx>>
    /\ UNCHANGED <<source, malformed, nextId, file, target, known_task_ids, is_initialized,
                   notion_tasks, new_task_ids, outcome, history, knownBefore,
                   existedBefore, lastReset, single,
                   clickup_users_cache, sync_status>>

\* A loop body that saves the ledger after each record.
FileInLoop_Saved(known, initialized) == save_known_tasks(PersistData(known, initialized))

\* Line 614: the loop body adds the id to the local set known_task_ids and
\* nothing else; the ledger file is as it was when the body is left.
FileInLoop(known, initialized) == file

\* Lines 589-615: update the task found or create one; a failed request
\* counts as an error; either way the id joins known_task_ids.
sync_write(t) ==
    /\ pc[t] = "writing"
    /\ LET s == notion_tasks[t][idx[t]]
       IN  \E ok \in BOOLEAN :
             /\ Disturbed(~ok)
             /\ IF ShouldUpdate(clickup_task_id[t])
                THEN /\ attempts' = [attempts EXCEPT ![t] =
                            Append(@, [sid |-> s, op |-> "update",
                                       tid |-> clickup_task_id[t], ok |-> ok])]
                     /\ target' = IF ok
                                  THEN [target EXCEPT ![clickup_task_id[t]] =
                                            update_description(@, s)]
                                  ELSE target
                ELSE /\ attempts' = [attempts EXCEPT ![t] =
                            Append(@, [sid |-> s, op |-> "create",
                                       tid |-> IF ok THEN Len(target) + 1 ELSE None,
                                       ok |-> ok])]
                     /\ target' = IF ok THEN Append(target, create_description(s))
                                  ELSE target
             /\ known_task_ids' = [known_task_ids EXCEPT ![t] = @ \cup {s}]
             /\ file' = FileInLoop(known_task_ids[t] \cup {s}, is_initialized[t])
             /\ clickup_task_id' = [clickup_task_id EXCEPT ![t] = None]
             /\ Advance(t, idx[t])
    \* create_clickup_task and update_clickup_task resolve the assignees
    \* (lines 427 and 475); a record that has some needs the roster table.
    /\ \E assigned \in BOOLEAN, fetched \in {None} \cup RosterVersions :
          clickup_users_cache' = IF assigned THEN get_clickup_users(fetched)
                                 ELSE clickup_users_cache
    /\ UNCHANGED <<source, malformed, nextId, is_initialized, notion_tasks,
                   new_task_ids, outcome, history, knownBefore, existedBefore,
                   lastReset, single, sync_status>>

\* The cycle's local counters after its loop: created and updated count the
\* requests that went through, errors the failed requests and the records
\* whose processing raised.
created(log) == Cardinality({k \in DOMAIN log : log[k].op = "create" /\ log[k].ok})
updated(log) == Cardinality({k \in DOMAIN log : log[k].op = "update" /\ log[k].ok})
errors(log)  == Cardinality({k \in DOMAIN log : ~log[k].ok})

\* Lines 630-639: the counters go to sync_status under
\* "if created > 0 or updated > 0", the errors under "if errors > 0" inside it.
CountCycle(log) ==
    IF created(log) > 0 \/ updated(log) > 0
    THEN [total_synced |-> sync_status.total_synced + created(log) + updated(log),
          errors       |-> sync_status.errors + errors(log)]
    ELSE sync_status

\* Lines 627-641: write the ledger file, then count the cycle.
sync_persist(t) ==
    /\ pc[t] = "persisting"
    /\ file' = save_known_tasks(PersistData(known_task_ids[t], is_initialized[t]))
    /\ everKnown' = everKnown \cup file'.task_ids
    /\ sync_status' = CountCycle(attempts[t])
    /\ Return(t, "persisted")
    /\ UNCHANGED <<source, malformed, nextId, target, preexisting, events>>

sync_notion_to_clickup(t) ==
    \/ sync_fetch(t)
    \/ sync_diff(t)
    \/ sync_lookup(t)
    \/ sync_write(t)
    \/ sync_persist(t)

(***************************************************************************)
(* Callers of the cycle and the other routes                               *)
(***************************************************************************)
\* One iteration of "while sync_status['running']" calls the cycle.
background_sync_loop ==
    /\ sync_load("loop")
    /\ UNCHANGED events

\* GET /trigger calls the cycle on the request's thread.
trigger ==
    /\ Disturbed(TRUE)
    /\ sync_load("trigger")

\* GET /reset removes the ledger file when it exists.
reset ==
    /\ Disturbed(TRUE)
    /\ file.exists
    /\ file' = NoFile
    /\ everKnown' = {}
    /\ preexisting' = {}
    /\ knownBefore' = [t \in Threads |-> {}]
    /\ existedBefore' = [t \in Threads |-> {}]
    /\ lastReset' = [existed |-> source, first |-> "pending"]
    /\ UNCHANGED <<source, malformed, nextId, target, pc, known_task_ids, is_initialized,
                   notion_tasks, new_task_ids, idx, clickup_task_id, attempts,
                   outcome, single,
                   clickup_users_cache, sync_status>>

(***************************************************************************)
(* The Notion users                                                        *)
(***************************************************************************)
AddRecord ==
    /\ nextId < MaxId
    /\ nextId' = nextId + 1
    /\ source' = source \cup {nextId + 1}
    \* The page's title or notes may start with a mention or an equation.
    /\ \E bad \in BOOLEAN :
          /\ Disturbed(bad)
          /\ malformed' = IF bad THEN malformed \cup {nextId + 1} ELSE malformed
    /\ UNCHANGED <<file, target, pc, locals, outcome, history,
                   lastReset, single,
                   clickup_users_cache, sync_status>>

RemoveRecord ==
    /\ Disturbed(TRUE)
    /\ \E s \in source : source' = source \ {s} /\ malformed' = malformed \ {s}
    /\ UNCHANGED <<nextId, file, target, pc, locals, outcome, history,
                   lastReset, single,
                   clickup_users_cache, sync_status>>

Next ==
    \/ background_sync_loop
    \/ trigger
    \/ \E t \in Threads : sync_notion_to_clickup(t)
    \/ reset
    \/ AddRecord
    \/ RemoveRecord

Spec == Init /\ [][Next]_vars

(***************************************************************************)
(* Unexpected errors.  Outside the per-record try of its loop the cycle    *)
(* catches nothing itself: an exception raised there (by the logger, by    *)
(* a page of the listing that is not a dict, by a ledger file whose        *)
(* task_ids is not a list) leaves sync_notion_to_clickup and reaches the   *)
(* caller.                                                                 *)
(***************************************************************************)
\* A poll loop without its except clause.
CatchesException_Never(t) == FALSE

\* background_sync_loop wraps the call in "try ... except Exception" and goes
\* on to time.sleep; /trigger catches the exception and answers 500.
CatchesException(t) == TRUE

\* The cycle of thread t raises before the loop over the records or after it.
sync_raise(t) ==
    /\ pc[t] \in {"listing", "fetched", "persisting"}
    /\ Disturbed(TRUE)
    /\ Unwind(t, "raised")
    /\ pc' = [pc EXCEPT ![t] = IF CatchesException(t) THEN "idle" ELSE "dead"]
    \* Line 670: the scheduler's except branch counts the error; /trigger's
    \* does not.
    /\ sync_status' = IF t = "loop" /\ CatchesException(t)
                      THEN [sync_status EXCEPT !.errors = @ + 1] ELSE sync_status
    /\ UNCHANGED <<source, malformed, nextId, file, target, history>>

\* The background thread on its own with the ledger file's other writer
\* and the Notion users.  The request threads share no lock and no queue
\* with it; what they do to it goes through the file and the two services.
NextOrRaise ==
    \/ background_sync_loop
    \/ sync_notion_to_clickup("loop")
    \/ sync_raise("loop")
    \/ reset
    \/ AddRecord
    \/ RemoveRecord

\* The background thread keeps running: it is not starved between two
\* statements and time.sleep(sync_interval) returns.
LoopFairness ==
    /\ WF_vars(background_sync_loop)
    /\ WF_vars(sync_notion_to_clickup("loop"))

FairSpec == Init /\ [][NextOrRaise]_vars /\ LoopFairness

(***************************************************************************)
(* The roster table when the start-up call did not build it                *)
(***************************************************************************)
\* The start-up call of get_clickup_users failed or found no member: the
\* global is still None (or {}) when the first cycle starts.
InitRoster == InitService /\ NoCall /\ clickup_users_cache = None

\* GET /status calls get_clickup_users to count the table's keys.
status_route ==
    /\ \E fetched \in {None} \cup RosterVersions :
          clickup_users_cache' = get_clickup_users(fetched)
    /\ UNCHANGED <<source, malformed, nextId, file, target, pc, locals, outcome, history,
                   events, lastReset, single, sync_status>>

\* GET /users does the same to show the keys.
users_route ==
    /\ \E fetched \in {None} \cup RosterVersions :
          clickup_users_cache' = get_clickup_users(fetched)
    /\ UNCHANGED <<source, malformed, nextId, file, target, pc, locals, outcome, history,
                   events, lastReset, single, sync_status>>

NextRoster ==
    \/ background_sync_loop
    \/ sync_notion_to_clickup("loop")
    \/ status_route
    \/ users_route
    \/ AddRecord

SpecRoster == InitRoster /\ [][NextRoster]_vars

(***************************************************************************)
(* Functions called on their own.  The service's state stays as it is.     *)
(***************************************************************************)
service == <<source, malformed, nextId, file, target, pc, locals, outcome, history, events,
             lastReset, clickup_users_cache, sync_status>>

NotReturned == returned = [fn |-> "none"]

(***************************************************************************)
(* map_notion_status_to_clickup.  A label is a string; it is modelled as a *)
(* sequence of pieces: a piece is one of the substrings the function looks *)
(* for, written in lower case or with capitals, some other word, or a      *)
(* blank.  None is the label of a record that has none.                    *)
(***************************************************************************)
\* Pieces per label.
MaxPieces == 2

\* The substrings of each group, in the order the function tests the groups
\* (the Vietnamese ones written without their diacritics).
ToDoTokens       == {"chua", "not started", "todo", "to do", "backlog"}
InProgressTokens == {"dang", "in progress", "doing", "working"}
CompleteTokens   == {"hoan", "complete", "done", "finished"}
ClosedTokens     == {"dong", "closed", "archived"}
StatusTokens     == ToDoTokens \cup InProgressTokens \cup CompleteTokens \cup ClosedTokens

Blank == [word |-> " ", capitals |-> FALSE]

Pieces(words) == {[word |-> w, capitals |-> c] : w \in words, c \in BOOLEAN} \cup {Blank}

\* The strings of at most n pieces.
Strings(pieces, n) == UNION {[1..k -> pieces] : k \in 0..n}

NoLabel == [is_none |-> TRUE, text |-> <<>>]

Labels(pieces) == {NoLabel} \cup {[is_none |-> FALSE, text |-> l] : l \in Strings(pieces, MaxPieces)}

\* str.lower()
lower(text) == [k \in DOMAIN text |-> [text[k] EXCEPT !.capitals = FALSE]]

\* str.strip(): without the blanks at both ends.
RECURSIVE strip(_)
strip(text) ==
    IF text = <<>> THEN text
    ELSE IF text[1] = Blank THEN strip(Tail(text))
    ELSE IF text[Len(text)] = Blank THEN strip(SubSeq(text, 1, Len(text) - 1))
    ELSE text

\* any(x in text for x in tokens)
AnyIn(tokens, text) ==
    \E k \in DOMAIN text : text[k].word \in tokens /\ ~text[k].capitals

\* A mapping without its last line.
map_notion_status_to_clickup_NoDefault(notion_status) ==
    IF notion_status.is_none \/ notion_status.text = <<>> THEN "to do"
    ELSE LET status == strip(lower(notion_status.text))
         IN  IF AnyIn(ToDoTokens, status) THEN "to do"
             ELSE IF AnyIn(InProgressTokens, status) THEN "in progress"
             ELSE IF AnyIn(CompleteTokens, status) THEN "complete"
             ELSE IF AnyIn(ClosedTokens, status) THEN "closed"
             ELSE "raise"

map_notion_status_to_clickup(notion_status) ==
    IF notion_status.is_none \/ notion_status.text = <<>> THEN "to do"
    ELSE LET status == strip(lower(notion_status.text))
         IN  IF AnyIn(ToDoTokens, status) THEN "to do"
             ELSE IF AnyIn(InProgressTokens, status) THEN "in progress"
             ELSE IF AnyIn(CompleteTokens, status) THEN "complete"
             ELSE IF AnyIn(ClosedTokens, status) THEN "closed"
             ELSE "to do"

(***************************************************************************)
(* map_notion_assignees_to_clickup.  Names and e-mail addresses are        *)
(* strings of characters: letters in lower case or capitals, blanks, "@"   *)
(* and a character that normalize_name removes.  The roster is the table   *)
(* get_clickup_users returns (clickup_users_cache): normalized key -> id.  *)
(***************************************************************************)
\* Characters per display name.
MaxNameLen == 3
\* Entries of the roster table.
MaxKeys == 2
\* Assignees per record.
MaxAssignees == 2

Char(c) == [word |-> c, capitals |-> FALSE]
Capital(c) == [word |-> c, capitals |-> TRUE]

UserIds == {1, 2}

\* re.sub(r'[^\w\s@.-]', '', name)
RemoveSpecial(text) ==
    LET Kept(c) == c.word # "!" IN SelectSeq(text, Kept)

\* str.split(): the maximal runs without a blank, left to right.
RECURSIVE Split(_)
Split(text) ==
    IF text = <<>> THEN <<>>
    ELSE IF text[1] = Blank THEN Split(Tail(text))
    ELSE LET blanks == {k \in DOMAIN text : text[k] = Blank}
             n == IF blanks = {} THEN Len(text)
                  ELSE (CHOOSE k \in blanks : \A j \in blanks : k <= j) - 1
         IN  <<SubSeq(text, 1, n)>> \o Split(SubSeq(text, n + 1, Len(text)))

\* ' '.join(parts)
RECURSIVE Join(_)
Join(parts) ==
    IF parts = <<>> THEN <<>>
    ELSE IF Len(parts) = 1 THEN parts[1]
    ELSE parts[1] \o <<Blank>> \o Join(Tail(parts))

\* normalize_name: lower case, stripped, special characters removed, runs
\* of blanks collapsed.
normalize_name(name) ==
    IF name = <<>> THEN <<>>
    ELSE Join(Split(RemoveSpecial(strip(lower(name)))))

\* email.split('@')[0]
BeforeAt(email) ==
    LET ats == {k \in DOMAIN email : email[k].word = "@"}
    IN  IF ats = {} THEN email
        ELSE SubSeq(email, 1, (CHOOSE k \in ats : \A j \in ats : k <= j) - 1)

\* The first part of the name that is a key of the roster, None if there is none.
RECURSIVE FirstPart(_, _)
FirstPart(name_parts, clickup_users) ==
    IF name_parts = <<>> THEN None
    ELSE IF name_parts[1] \in DOMAIN clickup_users THEN clickup_users[name_parts[1]]
    ELSE FirstPart(Tail(name_parts), clickup_users)

\* Body of "for assignee in notion_assignees" in app.py: the user_id found.
user_id_of(assignee, clickup_users) ==
    LET name == assignee.name
        email == assignee.email
        by_email ==
            IF email # <<>>
            THEN IF normalize_name(email) \in DOMAIN clickup_users
                 THEN clickup_users[normalize_name(email)]
                 ELSE IF normalize_name(BeforeAt(email)) \in DOMAIN clickup_users
                 THEN clickup_users[normalize_name(BeforeAt(email))]
                 ELSE None
            ELSE None
    IN  IF by_email = None /\ name # <<>>
        THEN IF normalize_name(name) \in DOMAIN clickup_users
             THEN clickup_users[normalize_name(name)]
             ELSE FirstPart(Split(normalize_name(name)), clickup_users)
        ELSE by_email

\* The loop of app.py with its list clickup_ids.
RECURSIVE AppendMatches(_, _, _)
AppendMatches(notion_assignees, clickup_users, clickup_ids) ==
    IF notion_assignees = <<>> THEN clickup_ids
    ELSE LET user_id == user_id_of(notion_assignees[1], clickup_users)
         IN  AppendMatches(Tail(notion_assignees), clickup_users,
                 IF user_id # None /\ user_id \notin Range(clickup_ids)
                 THEN Append(clickup_ids, user_id) ELSE clickup_ids)

\* A resolver that stops after its first assignee.
map_notion_assignees_to_clickup_FirstOnly(notion_assignees, clickup_users) ==
    IF notion_assignees = <<>> \/ DOMAIN clickup_users = {} THEN <<>>
    ELSE AppendMatches(<<notion_assignees[1]>>, clickup_users, <<>>)

\* app.py
map_notion_assignees_to_clickup(notion_assignees, clickup_users) ==
    IF notion_assignees = <<>> \/ DOMAIN clickup_users = {} THEN <<>>
    ELSE AppendMatches(notion_assignees, clickup_users, <<>>)

\* sync.py: the name in lower case, else the e-mail in lower case.
RECURSIVE sync_map_notion_assignees_to_clickup(_, _)
sync_map_notion_assignees_to_clickup(notion_assignees, clickup_users) ==
    IF notion_assignees = <<>> THEN <<>>
    ELSE LET name == lower(notion_assignees[1].name)
             email == lower(notion_assignees[1].email)
             rest == sync_map_notion_assignees_to_clickup(Tail(notion_assignees),
                                                          clickup_users)
         IN  IF name \in DOMAIN clickup_users THEN <<clickup_users[name]>> \o rest
             ELSE IF email \in DOMAIN clickup_users THEN <<clickup_users[email]>> \o rest
             ELSE rest

\* Display names, e-mail addresses and roster keys the calls are made with.
Names == Strings({Char("a"), Capital("b"), Blank, Char("!")}, MaxNameLen)

Emails == {<<>>} \cup {<<l, Char("@"), d>> : l, d \in {Char("a"), Capital("b")}}

KeyPool == {<<Char("a")>>, <<Char("b")>>, <<Char("a"), Blank, Char("b")>>,
            <<Char("a"), Char("@"), Char("b")>>, <<Char("b"), Char("@"), Char("a")>>}

Rosters == UNION {[keys -> UserIds] : keys \in {K \in SUBSET KeyPool : Cardinality(K) <= MaxKeys}}

Modules == {"app.py", "sync.py"}

\* One assignee, any name and address.
InitAssignee ==
    /\ InitService /\ UsersLoaded
    /\ call \in {[fn |-> "map_notion_assignees_to_clickup", module |-> m,
                  notion_assignees |-> <<[name |-> n, email |-> e]>>,
                  clickup_users |-> r] :
                    m \in Modules, n \in Names, e \in Emails, r \in Rosters}
    /\ NotReturned

\* The call, and the same call once more.
call_map_notion_assignees_to_clickup ==
    /\ call.fn = "map_notion_assignees_to_clickup"
    /\ IF NotReturned THEN TRUE ELSE returned.calls = 1
    /\ returned' = [fn |-> call.fn,
                    calls |-> IF NotReturned THEN 1 ELSE 2,
                    value |-> IF call.module = "app.py"
                              THEN map_notion_assignees_to_clickup(
                                       call.notion_assignees, call.clickup_users)
                              ELSE sync_map_notion_assignees_to_clickup(
                                       call.notion_assignees, call.clickup_users)]
    /\ UNCHANGED <<call, service>>

SpecAssignee == InitAssignee /\ [][call_map_notion_assignees_to_clickup]_vars

\* Lists of assignees, each with or without a name and an address.
People == {[name |-> n, email |-> e] :
              n \in {<<>>, <<Char("a")>>, <<Capital("b")>>, <<Char("a"), Blank, Capital("b")>>},
              e \in {<<>>, <<Char("a"), Char("@"), Capital("b")>>,
                           <<Capital("b"), Char("@"), Char("a")>>}}

InitAssignees ==
    /\ InitService /\ UsersLoaded
    /\ call \in {[fn |-> "map_notion_assignees_to_clickup", module |-> m,
                  notion_assignees |-> l, clickup_users |-> r] :
                    m \in Modules, l \in Strings(People, MaxAssignees), r \in Rosters}
    /\ NotReturned

SpecAssignees == InitAssignees /\ [][call_map_notion_assignees_to_clickup]_vars

(***************************************************************************)
(* format_notion_task.  Each property of the page is missing (no property  *)
(* of one of the names the function looks for), empty (the property is     *)
(* there with nothing in it: "title": [], "status": null, "people": [])    *)
(* or holds a value.                                                       *)
(***************************************************************************)
HighTokens   == {"cao", "high", "urgent", "critical", "khan"}
NormalTokens == {"trung", "medium", "normal", "binh thuong"}
LowTokens    == {"thap", "low", "minor"}

\* app.py
map_notion_priority_to_clickup(notion_priority) ==
    IF notion_priority.is_none \/ notion_priority.text = <<>> THEN 3
    ELSE LET priority == lower(notion_priority.text)
         IN  IF AnyIn(HighTokens, priority) THEN 1
             ELSE IF AnyIn(NormalTokens, priority) THEN 3
             ELSE IF AnyIn(LowTokens, priority) THEN 4
             ELSE 3

Label(text) == [is_none |-> FALSE, text |-> text]

\* "Chưa bắt đầu" and "Trung bình (Medium)"
DefaultStatusLabel == Label(<<Capital("chua"), Blank, Char("bat"), Blank, Char("dau")>>)
DefaultPriorityLabel ==
    Label(<<Capital("trung"), Blank, Char("binh"), Blank, Char("("), Capital("medium"), Char(")")>>)

\* sync.py: the two mappings are dictionaries of whole labels.
sync_status_mapping ==
    (DefaultStatusLabel.text :> "to do")
    @@ (<<Capital("dang"), Blank, Char("thuc"), Blank, Char("hien")>> :> "in progress")
    @@ (<<Capital("hoan"), Blank, Char("thanh")>> :> "complete")
    @@ (<<Capital("dong")>> :> "closed")
    @@ (<<Capital("not started")>> :> "to do")
    @@ (<<Capital("in progress")>> :> "in progress")
    @@ (<<Capital("complete")>> :> "complete")
    @@ (<<Capital("closed")>> :> "closed")

sync_map_notion_status_to_clickup(notion_status) ==
    IF ~notion_status.is_none /\ notion_status.text \in DOMAIN sync_status_mapping
    THEN sync_status_mapping[notion_status.text] ELSE "to do"

InitStatus ==
    /\ InitService /\ UsersLoaded
    /\ call \in {[fn |-> "map_notion_status_to_clickup", module |-> m, notion_status |-> l] :
                    m \in Modules, l \in Labels(Pieces(StatusTokens \cup {"other"}))}
    /\ NotReturned

call_map_notion_status_to_clickup ==
    /\ call.fn = "map_notion_status_to_clickup" /\ NotReturned
    /\ returned' = [fn |-> call.fn,
                    value |-> IF call.module = "app.py"
                              THEN map_notion_status_to_clickup(call.notion_status)
                              ELSE sync_map_notion_status_to_clickup(call.notion_status)]
    /\ UNCHANGED <<call, service>>

SpecStatus == InitStatus /\ [][call_map_notion_status_to_clickup]_vars

sync_priority_mapping ==
    (<<Capital("cao"), Blank, Char("("), Capital("high"), Char(")")>> :> 1)
    @@ (<<Capital("high")>> :> 1)
    @@ (<<Capital("urgent")>> :> 1)
    @@ (DefaultPriorityLabel.text :> 3)
    @@ (<<Capital("medium")>> :> 3)
    @@ (<<Capital("normal")>> :> 3)
    @@ (<<Capital("thap"), Blank, Char("("), Capital("low"), Char(")")>> :> 4)
    @@ (<<Capital("low")>> :> 4)

sync_map_notion_priority_to_clickup(notion_priority) ==
    IF ~notion_priority.is_none /\ notion_priority.text \in DOMAIN sync_priority_mapping
    THEN sync_priority_mapping[notion_priority.text] ELSE 3


PriorityTokens == HighTokens \cup NormalTokens \cup LowTokens

\* Every label of up to MaxPieces pieces, and the absent label.
InitPriority ==
    /\ InitService /\ UsersLoaded
    /\ call \in {[fn |-> "map_notion_priority_to_clickup", module |-> m,
                  notion_priority |-> l] :
                    m \in Modules, l \in Labels(Pieces(PriorityTokens \cup {"other"}))}
    /\ NotReturned

call_map_notion_priority_to_clickup ==
    /\ call.fn = "map_notion_priority_to_clickup" /\ NotReturned
    /\ returned' = [fn |-> call.fn,
                    value |-> IF call.module = "app.py"
                              THEN map_notion_priority_to_clickup(call.notion_priority)
                              ELSE sync_map_notion_priority_to_clickup(call.notion_priority)]
    /\ UNCHANGED <<call, service>>

SpecPriority == InitPriority /\ [][call_map_notion_priority_to_clickup]_vars

Missing(nothing) == [shape |-> "missing", value |-> nothing]
Empty(nothing) == [shape |-> "empty", value |-> nothing]
Value(v) == [shape |-> "value", value |-> v]

\* A title or rich_text list whose first item is a mention or an equation:
\* the item has no "text" key.
NoText(nothing) == [shape |-> "no_text", value |-> nothing]

\* "if prop and prop.get(key)": the property is there and holds something.
Holds(prop) == prop.shape \in {"value", "no_text"}

\* prop[key][0]["text"]["content"] raises KeyError for an item without
\* "text"; the title and the description are read that way.
KeyError(page) == page.title.shape = "no_text" \/ page.description.shape = "no_text"

NoDeadline == "None"

\* app.py
format_notion_task(page) ==
    [name        |-> IF Holds(page.title) THEN page.title.value ELSE "Untitled Task",
     status      |-> map_notion_status_to_clickup(
                         IF Holds(page.status) THEN page.status.value
                         ELSE DefaultStatusLabel),
     priority    |-> map_notion_priority_to_clickup(
                         IF Holds(page.priority) THEN page.priority.value
                         ELSE DefaultPriorityLabel),
     deadline    |-> IF Holds(page.deadline) THEN page.deadline.value ELSE NoDeadline,
     description |-> IF Holds(page.description) THEN page.description.value ELSE "",
     assignees   |-> IF Holds(page.people) THEN page.people.value ELSE <<>>]

\* sync.py
sync_format_notion_task(page) ==
    [name        |-> IF Holds(page.title) THEN page.title.value ELSE "Untitled",
     status      |-> sync_map_notion_status_to_clickup(
                         IF Holds(page.status) THEN page.status.value
                         ELSE DefaultStatusLabel),
     priority    |-> sync_map_notion_priority_to_clickup(
                         IF Holds(page.priority) THEN page.priority.value
                         ELSE DefaultPriorityLabel),
     deadline    |-> IF Holds(page.deadline) THEN page.deadline.value ELSE NoDeadline,
     description |-> IF Holds(page.description) THEN page.description.value ELSE "",
     assignees   |-> IF Holds(page.people) THEN page.people.value ELSE <<>>]

Shapes(nothing, values) == {Missing(nothing), Empty(nothing)} \cup {Value(v) : v \in values}

Pages ==
    [title       : Shapes("", {"Write report"}) \cup {NoText("")},
     status      : Shapes(NoLabel, {Label(<<Capital("done")>>), Label(<<Capital("in progress")>>)}),
     priority    : Shapes(NoLabel, {Label(<<Capital("high")>>), Label(<<Char("low")>>)}),
     deadline    : Shapes(NoDeadline, {"2025-01-31"}),
     description : Shapes("", {"notes"}) \cup {NoText("")},
     people      : Shapes(<<>>, {<<[name |-> <<Char("a")>>, email |-> <<>>]>>})]

InitFormat ==
    /\ InitService /\ UsersLoaded
    /\ call \in {[fn |-> "format_notion_task", module |-> m, page |-> p] :
                    m \in Modules, p \in Pages}
    /\ NotReturned

call_format_notion_task ==
    /\ call.fn = "format_notion_task" /\ NotReturned
    /\ returned' = [fn |-> call.fn,
                    raised |-> KeyError(call.page),
                    value |-> IF KeyError(call.page) THEN "KeyError"
                              ELSE IF call.module = "app.py"
                              THEN format_notion_task(call.page)
                              ELSE sync_format_notion_task(call.page)]
    /\ UNCHANGED <<call, service>>

SpecFormat == InitFormat /\ [][call_format_notion_task]_vars

(***************************************************************************)
(* Properties                                                              *)
(***************************************************************************)
\* The step is thread t finishing the dispatch of one record: an entry is
\* added to the cycle's log.
Dispatches(t) == attempts'[t] # attempts[t] /\ Len(attempts'[t]) = Len(attempts[t]) + 1

\* The entry that step adds.
Dispatched(t) == attempts'[t][Len(attempts'[t])]

\* The step is thread t sending a create or an update request.
IssuesCall(t) == pc[t] = "writing" /\ Dispatches(t)

\* The tasks of the target list created for source id s.
LinkedTo(tasks, s) == {k \in DOMAIN tasks : tasks[k] = s}

\* The step is thread t leaving the cycle it started on an empty,
\* uninitialized ledger, with the listing it fetched.
EndsFirstCycle(t) ==
    /\ pc[t] = "fetched" /\ pc'[t] = "idle"
    /\ ~is_initialized[t] /\ known_task_ids[t] = {}

\* C1 as stated: a cycle that starts from an empty, uninitialized ledger and
\* lists K records, K >= 0, leaves the ledger initialized with exactly those
\* K ids and sends no create or update.
C1_BootstrapAnyK ==
    [][\A t \in Threads : EndsFirstCycle(t) =>
          /\ file'.exists /\ file'.initialized
          /\ file'.task_ids = Range(notion_tasks[t])
          /\ target' = target /\ attempts[t] = <<>>]_vars

\* C1 amended: with K >= 1 listed records the cycle leaves the ledger
\* initialized with exactly those K ids; with K = 0 it leaves the ledger as
\* it was (possibly uninitialized); in both cases it sends no create or update.
C1_Bootstrap ==
    [][\A t \in Threads : EndsFirstCycle(t) =>
          /\ IF Len(notion_tasks[t]) >= 1
             THEN /\ file'.exists /\ file'.initialized
                  /\ file'.task_ids = Range(notion_tasks[t])
                  /\ Cardinality(file'.task_ids) = Len(notion_tasks[t])
             ELSE file' = file
          /\ target' = target /\ attempts[t] = <<>>]_vars

\* A first run over two records has just ended: both ids are in the ledger,
\* nothing was created.
C1_Witness ==
    \E t \in Threads :
        /\ outcome[t] = "first_run" /\ pc[t] = "idle"
        /\ file.initialized /\ Cardinality(file.task_ids) = 2
        /\ target = <<None>>

\* C2: a cycle never sends a create or update for an id that the ledger
\* held at some time before the cycle started (since the last reset).
C2_NoReattempt ==
    [][\A t \in Threads : IssuesCall(t) => Dispatched(t).sid \notin knownBefore[t]]_vars

\* C3: a step that is not the reset removes no id from the ledger file and
\* does not turn initialized from true to false.
C3_LedgerMonotone ==
    [][~reset =>
          /\ file.task_ids \subseteq file'.task_ids
          /\ file.initialized => file'.initialized]_vars

\* C4: at most one thread is inside the cycle.
C4_SingleActiveCycle == Cardinality({t \in Threads : pc[t] # "idle"}) <= 1

\* C5: when a cycle that went through its batch writes the ledger, every id
\* of the batch is in the file, whatever happened to the record.
C5_AttemptedRecorded ==
    [][\A t \in Threads : (pc[t] = "persisting" /\ pc'[t] = "idle") =>
          Range(new_task_ids[t]) \subseteq file'.task_ids]_vars

\* C6: a cycle started after a first run never sends a create or update for
\* a record that was in the source at that first run (no reset in between).
C6_NoBackfill ==
    [][\A t \in Threads : IssuesCall(t) => Dispatched(t).sid \notin existedBefore[t]]_vars

\* C7: a listing that comes back non-empty holds every record of the source.
C7_CompleteListing ==
    [][\A t \in Threads : (pc[t] = "listing" /\ pc'[t] = "fetched") =>
          (notion_tasks'[t] = <<>> \/ Range(notion_tasks'[t]) = source)]_vars

\* C8: the request sent for a record with no target task created for it is
\* a create, and a create that goes through leaves exactly one such task; the
\* request sent for a record that has such a task is an update against it.
C8_CreateOrUpdateByLink ==
    [][\A t \in Threads : IssuesCall(t) =>
          LET a == Dispatched(t)
          IN  IF LinkedTo(target, a.sid) = {}
              THEN /\ a.op = "create"
                   /\ a.ok => Cardinality(LinkedTo(target', a.sid)) = 1
              ELSE a.op = "update" /\ a.tid \in LinkedTo(target, a.sid)]_vars

\* C9: an update sent for source id s goes to a task created for s.
C9_NoIncorrectOverwrite ==
    [][\A t \in Threads : (IssuesCall(t) /\ Dispatched(t).op = "update") =>
          target[Dispatched(t).tid] = Dispatched(t).sid]_vars

\* C10: a cycle whose listing is empty ends there: ledger file and target
\* list stay as they are, nothing is dispatched.
C10_EmptyListingNoOp ==
    [][\A t \in Threads : (pc[t] = "fetched" /\ notion_tasks[t] = <<>> /\ pc'[t] # "fetched") =>
          /\ file' = file /\ target' = target
          /\ pc'[t] = "idle" /\ attempts'[t] = <<>>]_vars

\* A cycle on an initialized ledger has just ended on an empty listing while
\* the source holds records.
C10_Witness ==
    \E t \in Threads :
        /\ outcome[t] = "empty" /\ pc[t] = "idle"
        /\ file.initialized /\ file.task_ids # {} /\ source # {}

\* The ledger's ids as thread t's cycle loaded them: its known_task_ids
\* without the ids the cycle has added after a create or update request.
KnownAtStart(t) ==
    known_task_ids[t] \ {attempts[t][k].sid : k \in {j \in DOMAIN attempts[t] : attempts[t][j].op # "raise"}}

\* The ids thread t's cycle has called the transform for.
Attempted(t) == {attempts[t][k].sid : k \in DOMAIN attempts[t]}

\* The step is thread t ending a cycle that ran on an initialized ledger and
\* a listing with records.
EndsDiffCycle(t) ==
    /\ pc[t] \in {"fetched", "persisting"} /\ pc'[t] = "idle"
    /\ is_initialized[t] /\ notion_tasks[t] # <<>>

\* C11: a cycle on an initialized ledger transforms and dispatches exactly
\* the ids of its listing that the ledger did not hold when the cycle read
\* it, and leaves a ledger that holds every id of the listing (a ledger
\* that a reset has removed meanwhile aside).
C11_DiffCorrectness ==
    [][\A t \in Threads : EndsDiffCycle(t) =>
          /\ Attempted(t) = Range(notion_tasks[t]) \ KnownAtStart(t)
          /\ file'.exists => Range(notion_tasks[t]) \subseteq file'.task_ids]_vars

\* C12: whenever a cycle of the poll loop has raised, the loop starts
\* another cycle later on.
C12_SchedulerFirewall ==
    (outcome["loop"] = "raised") ~> (pc["loop"] = "listing")

\* The poll loop is back between two cycles after one of its cycles raised.
C12_Witness == outcome["loop"] = "raised" /\ pc["loop"] = "idle"

\* C13: a cycle that has left its loop has dispatched every new record of
\* its batch, whatever happened to the other records of the batch.
C13_SiblingIsolation ==
    \A t \in Threads : pc[t] = "persisting" =>
        Attempted(t) = Range(new_task_ids[t])

\* A cycle has left its loop after a record whose dispatch failed or raised
\* and a later record of the same batch whose request went through.
C13_Witness ==
    \E t \in Threads :
        /\ pc[t] = "persisting" /\ Len(attempts[t]) = 2
        /\ ~attempts[t][1].ok
        /\ attempts[t][2].ok /\ attempts[t][2].op = "create"
        /\ attempts[t][2].sid # attempts[t][1].sid

\* C14: the first cycle started after a reset sends no create or update
\* for a record that was in the source when the reset was made.
C14_NoMassCreateAfterReset ==
    [][\A t \in Threads : (IssuesCall(t) /\ lastReset.first = t) =>
          Dispatched(t).sid \notin lastReset.existed]_vars

\* C15: the task a create request makes starts with the marker of the
\* record it was made for, and no step, an update request in particular,
\* changes the description of a task of the list.
C15_MarkerInvariant ==
    [][/\ \A k \in DOMAIN target : k \in DOMAIN target' /\ target'[k] = target[k]
       /\ \A t \in Threads :
             (IssuesCall(t) /\ Dispatched(t).op = "create" /\ Dispatched(t).ok) =>
                /\ Dispatched(t).tid = Len(target') /\ Len(target') = Len(target) + 1
                /\ target'[Dispatched(t).tid] = Dispatched(t).sid]_vars

\* A cycle has created a task for one record and then updated a task with
\* success.
C15_Witness ==
    \E t \in Threads :
        /\ Len(attempts[t]) = 2
        /\ attempts[t][1].op = "create" /\ attempts[t][1].ok
        /\ attempts[t][2].op = "update" /\ attempts[t][2].ok

\* C16: for every label the status mapping returns one of to do, in
\* progress, complete, closed, and to do for a label that is absent, empty
\* or holds none of the recognized tokens in any letter case.
C16_StatusTotality ==
    returned.fn = "map_notion_status_to_clickup" =>
        /\ returned.value \in {"to do", "in progress", "complete", "closed"}
        /\ (\A k \in DOMAIN call.notion_status.text :
               call.notion_status.text[k].word \notin StatusTokens)
              => returned.value = "to do"

\* The mapping has returned for a label made of an unrecognized word and a blank.
C16_Witness ==
    /\ returned.fn = "map_notion_status_to_clickup"
    /\ call.notion_status.text = <<[word |-> "other", capitals |-> TRUE], Blank>>
    /\ returned.value = "to do"

\* The keys of an assignee in the order of precedence: normalized e-mail,
\* normalized local part, normalized display name, its parts left to right.
KeysInOrder(assignee) ==
    (IF assignee.email = <<>> THEN <<>>
     ELSE <<normalize_name(assignee.email), normalize_name(BeforeAt(assignee.email))>>)
    \o (IF assignee.name = <<>> THEN <<>>
        ELSE <<normalize_name(assignee.name)>> \o Split(normalize_name(assignee.name)))

\* The id of the first key of the sequence that is in the roster, if any.
FirstPresent(keys, roster) ==
    LET present == {k \in DOMAIN keys : keys[k] \in DOMAIN roster}
    IN  IF present = {} THEN <<>>
        ELSE <<roster[keys[CHOOSE k \in present : \A j \in present : k <= j]]>>

\* C17: resolving one assignee returns the roster id of the first of its
\* keys, in the order of precedence, that the roster has, and nothing when
\* the roster has none of them.
C17_AssigneePrecedence ==
    (returned.fn = "map_notion_assignees_to_clickup" /\ Len(call.notion_assignees) = 1) =>
        returned.value = FirstPresent(KeysInOrder(call.notion_assignees[1]), call.clickup_users)

\* The same for the resolver of app.py alone.
C17_AssigneePrecedenceInApp ==
    call.fn = "map_notion_assignees_to_clickup" /\ call.module = "app.py" => C17_AssigneePrecedence

\* The ids of a list without the repetitions of an id, in the order of the
\* first occurrences.
RECURSIVE Dedup(_, _)
Dedup(ids, seen) ==
    IF ids = <<>> THEN <<>>
    ELSE IF ids[1] \in seen THEN Dedup(Tail(ids), seen)
    ELSE <<ids[1]>> \o Dedup(Tail(ids), seen \cup {ids[1]})

\* What each assignee of the list gets when it is resolved alone, in the
\* order of the list.
RECURSIVE EachAlone(_, _)
EachAlone(assignees, roster) ==
    IF assignees = <<>> THEN <<>>
    ELSE map_notion_assignees_to_clickup(<<assignees[1]>>, roster)
         \o EachAlone(Tail(assignees), roster)

\* The assignee has a key of the roster among those of its e-mail address
\* and none among those of its name, or the other way round.
MatchedOnlyByEmail(a, roster) ==
    /\ a.email # <<>> /\ map_notion_assignees_to_clickup(<<[a EXCEPT !.name = <<>>]>>, roster) # <<>>
    /\ map_notion_assignees_to_clickup(<<[a EXCEPT !.email = <<>>]>>, roster) = <<>>

MatchedOnlyByName(a, roster) ==
    /\ a.name # <<>> /\ map_notion_assignees_to_clickup(<<[a EXCEPT !.email = <<>>]>>, roster) # <<>>
    /\ map_notion_assignees_to_clickup(<<[a EXCEPT !.name = <<>>]>>, roster) = <<>>

\* C18: with the same roster and the same list, the resolver of app.py
\* returns the same ids in the same order when it is called again; and what
\* it returns for a list is what its assignees get when resolved alone, one
\* after the other (an id named twice kept once), in particular for an
\* assignee matched only by e-mail together with one matched only by name.
C18_ResolveDeterminism ==
    [][(call.fn = "map_notion_assignees_to_clickup" /\ call.module = "app.py"
          /\ returned'.fn = call.fn) =>
          /\ returned.fn = call.fn => returned'.value = returned.value
          /\ returned'.value = Dedup(EachAlone(call.notion_assignees, call.clickup_users), {})]_vars

\* The resolver of app.py has been called twice with an assignee matched
\* only by e-mail and one matched only by name, and has returned their two ids.
C18_Witness ==
    /\ returned.fn = "map_notion_assignees_to_clickup" /\ call.module = "app.py"
    /\ returned.calls = 2
    /\ Len(call.notion_assignees) = 2
    /\ MatchedOnlyByEmail(call.notion_assignees[1], call.clickup_users)
    /\ MatchedOnlyByName(call.notion_assignees[2], call.clickup_users)
    /\ Len(returned.value) = 2 /\ returned.value[1] # returned.value[2]

\* C19: for a page none of whose title, status, priority, date, description
\* and people properties holds a value, the transform returns the title
\* "Untitled", status to do, priority 3, no due date, the empty description
\* and no assignees.
C19_TransformerDefaults ==
    (/\ returned.fn = "format_notion_task"
     /\ \A f \in DOMAIN call.page : ~Holds(call.page[f])) =>
        returned.value = [name |-> "Untitled", status |-> "to do", priority |-> 3,
                          deadline |-> NoDeadline, description |-> "", assignees |-> <<>>]

\* C20: whatever the interleaving of scheduled and triggered cycles, no
\* source id has two tasks of the target list created for it: at most one
\* create call goes through for any one source id.
C20_NoDuplicateTarget ==
    \A s \in Ids : Cardinality(LinkedTo(target, s)) <= 1

\* The step is thread t taking the first-run snapshot: it loaded an
\* uninitialized ledger and saves the ids it listed.
Bootstraps(t) == pc[t] = "fetched" /\ ~is_initialized[t] /\ outcome'[t] = "first_run"

\* C21: a ledger file that is absent (removed by the reset) comes back only
\* by the first-run snapshot of a cycle; no other step of a cycle, one that
\* was in flight at the reset included, writes it back.
C21_ResetDurable ==
    [][(~file.exists /\ file'.exists) => \E t \in Threads : Bootstraps(t)]_vars

\* Thread t is in the loop over the records of its cycle.
Dispatching(t) == pc[t] \in {"dispatching", "writing"}

\* C22: the roster table is given a value only while no cycle is
\* dispatching records, and only when it has none: once built it keeps its
\* content.
C22_RosterStability ==
    [][clickup_users_cache' # clickup_users_cache =>
          /\ clickup_users_cache = None
          /\ \A t \in Threads : ~Dispatching(t)]_vars

\* C23: format_notion_task returns a task for every page, whatever the shape
\* of its title, status, priority, date, description and people properties:
\* it never raises.
C23_TransformerTotality ==
    returned.fn = "format_notion_task" => ~returned.raised

\* The step is thread t ending a cycle that dispatched at least one record.
EndsDispatchCycle(t) == pc[t] = "persisting" /\ pc'[t] = "idle" /\ attempts[t] # <<>>

\* C24: a cycle that dispatched at least one record adds the number of its
\* failed records to the errors counter and the number of its created and
\* updated records to the synced counter, also when every dispatch failed.
C24_FailureMetric ==
    [][\A t \in Threads : EndsDispatchCycle(t) =>
          /\ sync_status'.errors = sync_status.errors + errors(attempts[t])
          /\ sync_status'.total_synced =
                 sync_status.total_synced + created(attempts[t]) + updated(attempts[t])]_vars

\* Some token of the group occurs in the label, in either letter case.
Mentions(tokens, label) ==
    ~label.is_none /\ \E k \in DOMAIN label.text : label.text[k].word \in tokens

\* C25: the status of a label is that of the first group, in the order
\* to do, in progress, complete, closed, one of whose tokens occurs in the
\* label in either letter case; to do when no token occurs.
C25_StatusTieBreak ==
    returned.fn = "map_notion_status_to_clickup" =>
        returned.value =
            IF Mentions(ToDoTokens, call.notion_status) THEN "to do"
            ELSE IF Mentions(InProgressTokens, call.notion_status) THEN "in progress"
            ELSE IF Mentions(CompleteTokens, call.notion_status) THEN "complete"
            ELSE IF Mentions(ClosedTokens, call.notion_status) THEN "closed"
            ELSE "to do"

\* C26: a label in which a high or urgent token occurs, in either letter
\* case, has priority 1; a label in which a low token occurs and no high or
\* urgent token has priority 4; every other label, the empty and the absent
\* one included, has priority 3.
C26_PriorityMapping ==
    returned.fn = "map_notion_priority_to_clickup" =>
        returned.value =
            IF Mentions(HighTokens, call.notion_priority) THEN 1
            ELSE IF Mentions(LowTokens, call.notion_priority) THEN 4
            ELSE 3

\* No id occurs twice in the list.
NoRepeat(ids) == \A j, k \in DOMAIN ids : ids[j] = ids[k] => j = k

\* C27: for every roster and every list of assignees the resolver returns
\* a list without repeated ids that is no longer than the list of
\* assignees, and the empty list when the roster is empty or no assignee is
\* given.
C27_OneIdPerAssignee ==
    returned.fn = "map_notion_assignees_to_clickup" =>
        /\ NoRepeat(returned.value)
        /\ Len(returned.value) <= Len(call.notion_assignees)
        /\ (DOMAIN call.clickup_users = {} \/ call.notion_assignees = <<>>) =>
               returned.value = <<>>

\* C28: the log of a cycle holds at most one entry for any one source id:
\* a record is dispatched once and gets one create or update call, which is
\* not sent again in the same cycle when it failed.
C28_OneWritePerRecord ==
    \A t \in Threads : \A j, k \in DOMAIN attempts[t] :
        attempts[t][j].sid = attempts[t][k].sid => j = k

\* A cycle has gone on to its second new record after a create that failed.
C28_Witness ==
    \E t \in Threads :
        /\ Len(attempts[t]) = 2
        /\ attempts[t][1].op = "create" /\ ~attempts[t][1].ok
        /\ attempts[t][2].op \in {"create", "update"}

\* The step is one of thread t's cycle.
Moves(t) == pc'[t] # pc[t] \/ idx'[t] # idx[t] \/ attempts'[t] # attempts[t]

\* C29: a cycle that has new records leaves the ledger file as it is in
\* every step of its loop over the records, and writes it in the step after
\* the loop, when every new record has been through its dispatch (sent,
\* failed or raised).
C29_PersistAfterDispatch ==
    [][\A t \in Threads :
          /\ (Dispatching(t) /\ Moves(t)) => file' = file
          /\ (Moves(t) /\ new_task_ids[t] # <<>> /\ file' # file) =>
                 /\ pc[t] = "persisting"
                 /\ Attempted(t) = Range(new_task_ids[t])]_vars

\* A cycle that created a task has saved the ledger and returned.
C29_Witness ==
    \E t \in Threads :
        /\ outcome[t] = "persisted" /\ pc[t] = "idle"
        /\ Len(target) >= 2
        /\ file.exists /\ target[Len(target)] \in file.task_ids

\* C30: the records a cycle has dispatched so far are the first of its new
\* records in the order of the listing, newest first, and the record it is
\* looking up or writing is the one after them: the call for a record is
\* issued before the lookup of the next one starts.
C30_ProcessingOrder ==
    \A t \in Threads :
        LET log == attempts[t]
            new == new_task_ids[t]
        IN  /\ Len(log) <= Len(new)
            /\ \A k \in DOMAIN log : log[k].sid = new[k]
            /\ \A j, k \in DOMAIN new : j < k => new[j] > new[k]
            /\ Dispatching(t) =>
                   /\ Len(log) < Len(new)
                   /\ notion_tasks[t][idx[t]] = new[Len(log) + 1]

\* A cycle has dispatched two new records, the newer one first, and has
\* left its loop.
C30_Witness ==
    \E t \in Threads :
        /\ pc[t] = "persisting"
        /\ Len(attempts[t]) = 2
        /\ attempts[t][1].sid > attempts[t][2].sid
        /\ attempts[t][1].op = "create" /\ attempts[t][1].ok

\* Record s was created after the first-run snapshot, is in the database
\* and is not in the ledger file yet.
AwaitsDispatch(s) ==
    /\ file.exists /\ file.initialized
    /\ s \in source /\ s \notin preexisting /\ s \notin file.task_ids

\* The poll loop's cycle has sent a create or an update for record s.
CallIssued(s) ==
    \E k \in DOMAIN attempts["loop"] :
        attempts["loop"][k].sid = s /\ attempts["loop"][k].op \in {"create", "update"}

\* Record s has left the database, or the ledger file was removed by a reset.
NoLongerDue(s) == s \notin source \/ ~file.exists

\* C31: with the poll loop scheduled fairly, a record created after the
\* first-run snapshot that stays in the database gets a create or an update
\* call, and its id gets into the ledger file.
C31_EventualDispatch ==
    \A s \in Ids :
        /\ AwaitsDispatch(s) ~> (CallIssued(s) \/ NoLongerDue(s))
        /\ AwaitsDispatch(s) ~> ((file.exists /\ s \in file.task_ids) \/ NoLongerDue(s))

====
